---- MODULE Spec2Model ----
(***************************************************************************)
(* Model of sleap_io/io/labelstudio.py: conversion between Labels and the  *)
(* label-studio task format (parse_tasks, task_to_labeled_frame,           *)
(* filter_and_index, build_relation_map, video_from_task, write_labels).   *)
(*                                                                         *)
(* Python values are modelled as follows.                                  *)
(*   dict (insertion ordered)  a sequence of records [k, v], keys distinct *)
(*   list                      a sequence                                  *)
(*   float                     <<n>> for the number n, <<>> for NaN        *)
(*   JSON value of unknown     [kind |-> "list", items |-> seq],           *)
(*   shape (task[key])         [kind |-> "None"] or [kind |-> "int"]       *)
(*   optional dict key         presence of the record field (DOMAIN)       *)
(***************************************************************************)
EXTENDS Integers, Sequences, FiniteSets, TLC

VARIABLES
    pc,          \* position of the running call
    labels,      \* argument of write_labels
    tasks,       \* argument of parse_tasks (or the value write_labels returned)
    idx,         \* parse_tasks: position of `entry` in `tasks`
    frames,      \* parse_tasks: the list `frames`
    key,         \* parse_tasks: the chosen annotation key
    to_parse,    \* task_to_labeled_frame: the result list being parsed
    individuals, \* task_to_labeled_frame: dict id -> rectanglelabels item
    keypoints,   \* task_to_labeled_frame: dict id -> keypointlabels item (the pool)
    relations,   \* task_to_labeled_frame: dict id -> list of related ids
    instances,   \* task_to_labeled_frame: the list `instances`
    points,      \* task_to_labeled_frame: the dict `points`
    indvQueue,   \* ids the loop over individuals.items() has yet to visit
    indv_id,     \* current individual of that loop (<<>> before the first, else <<id>>)
    relQueue,    \* ids the loop over relations[indv_id] has yet to visit
    popped,      \* history: every keypoints.pop(rel) that succeeded, as <<indv_id, rel>>
    err          \* the exception that ended the call, or NoError

vars == <<pc, labels, tasks, idx, frames, key, to_parse, individuals, keypoints,
          relations, instances, points, indvQueue, indv_id, relQueue, popped, err>>

----------------------------------------------------------------------------
(* Bounds of the model *)

MaxRels == 2      \* relation items in an enumerated result list
MaxTasks == 2     \* tasks in an enumerated task list
MaxFrames == 2    \* frames in an enumerated label collection
MaxItems == 3     \* items in a result list handed to build_relation_map alone

----------------------------------------------------------------------------
(* Python floats *)

NaN == <<>>

isnan(f) == f = NaN

\* (pct * size) / 100, lines 198-199 and 216-217; NaN propagates.
\* The enumerated numbers make the division exact.
ToPixels(pct, size) == IF isnan(pct) THEN NaN ELSE << (pct[1] * size) \div 100 >>

\* pos / size * 100, lines 115-116; NaN propagates.
ToPercent(pos, size) == IF isnan(pos) THEN NaN ELSE << (pos[1] * 100) \div size >>

----------------------------------------------------------------------------
(* Python dicts, insertion ordered *)

RECURSIVE DictKeys(_)
DictKeys(d) == IF d = <<>> THEN <<>> ELSE <<Head(d).k>> \o DictKeys(Tail(d))

KeySet(d) == {d[i].k : i \in DOMAIN d}

HasKey(d, k) == k \in KeySet(d)

DictGet(d, k) == d[CHOOSE i \in DOMAIN d : d[i].k = k].v

\* d[k] = v : an existing key keeps its position and takes the new value
DictSet(d, k, v) ==
    IF HasKey(d, k)
    THEN [i \in DOMAIN d |-> IF d[i].k = k THEN [k |-> k, v |-> v] ELSE d[i]]
    ELSE Append(d, [k |-> k, v |-> v])

\* a lookup that leaves the dict as it is
DictKeep(d, k) == d

\* the dict left by d.pop(k)
RECURSIVE DictRemove(_, _)
DictRemove(d, k) ==
    IF d = <<>> THEN <<>>
    ELSE IF Head(d).k = k THEN Tail(d)
    ELSE <<Head(d)>> \o DictRemove(Tail(d), k)

RECURSIVE SeqFilterType(_, _)
SeqFilterType(s, t) ==
    IF s = <<>> THEN <<>>
    ELSE IF Head(s).type = t THEN <<Head(s)>> \o SeqFilterType(Tail(s), t)
    ELSE SeqFilterType(Tail(s), t)

----------------------------------------------------------------------------
(* filter_and_index and build_relation_map *)

RECURSIVE IndexById(_, _)
IndexById(filtered, acc) ==
    IF filtered = <<>> THEN acc
    ELSE IndexById(Tail(filtered), DictSet(acc, Head(filtered).id, Head(filtered)))

filter_and_index(annotations, annot_type) ==
    IndexById(SeqFilterType(annotations, annot_type), <<>>)

\* relmap[a].append(b), creating the empty list first when a is no key yet
RelAppend(relmap, a, b) ==
    LET cur == IF HasKey(relmap, a) THEN DictGet(relmap, a) ELSE <<>>
    IN DictSet(relmap, a, Append(cur, b))

\* a map that records each edge under its from_id only
RECURSIVE RelFoldOneWay(_, _)
RelFoldOneWay(rels, relmap) ==
    IF rels = <<>> THEN relmap
    ELSE RelFoldOneWay(Tail(rels), RelAppend(relmap, Head(rels).from_id, Head(rels).to_id))

RECURSIVE RelFold(_, _)
RelFold(rels, relmap) ==
    IF rels = <<>> THEN relmap
    ELSE RelFold(Tail(rels),
                 RelAppend(RelAppend(relmap, Head(rels).from_id, Head(rels).to_id),
                           Head(rels).to_id, Head(rels).from_id))

build_relation_map(annotations) ==
    RelFold(SeqFilterType(annotations, "relation"), <<>>)

----------------------------------------------------------------------------
(* The collaborators of sleap_io the module constructs *)

skeleton == "skeleton"

\* Node(name): nodes with one name are one dict key
Node(name) == name

Unset == "default"

\* Point(x, y) and Point(x, y, visible=True)
Point(x, y, visible) == [x |-> x, y |-> y, visible |-> visible]

Instance(pts, skel) == [points |-> pts, skeleton |-> skel]

Video(filename, shape) == [filename |-> filename, shape |-> shape]

LabeledFrame(video, frame_idx, insts) ==
    [video |-> video, frame_idx |-> frame_idx, instances |-> insts]

\* video.shape of a video whose shape is None
NoShape == <<>>

----------------------------------------------------------------------------
(* Exceptions *)

NoError == [type |-> "none", task |-> "", cause |-> ""]

Exception(type) == [type |-> type, task |-> "", cause |-> ""]

\* task.get("id", "??")
TaskName(task) == IF "id" \in DOMAIN task THEN task.id ELSE "??"

\* raise RuntimeError("While working on Task #{}, ...") from excpt, lines 226-231
Wrapped(task, cause) == [type |-> "RuntimeError", task |-> TaskName(task), cause |-> cause]

----------------------------------------------------------------------------
(* Result items of the label-studio format *)

RectItem(id, w, h) ==
    [type |-> "rectanglelabels", id |-> id, original_width |-> w, original_height |-> h,
     value |-> [x |-> <<0>>, y |-> <<0>>, width |-> w, height |-> h,
                rectanglelabels |-> <<"instance_class">>]]

KeypointItem(id, x, y, label, w, h) ==
    [type |-> "keypointlabels", id |-> id, original_width |-> w, original_height |-> h,
     value |-> [x |-> x, y |-> y, keypointlabels |-> <<label>>]]

\* a keypoint item whose value lacks the geometry keys x and y
KeypointNoGeometry(id, label, w, h) ==
    [type |-> "keypointlabels", id |-> id, original_width |-> w, original_height |-> h,
     value |-> [keypointlabels |-> <<label>>]]

RelationItem(from, to) ==
    [type |-> "relation", from_id |-> from, to_id |-> to, direction |-> "right"]

\* an item of a type the parser does not read
ChoiceItem(id) == [type |-> "choices", id |-> id]

----------------------------------------------------------------------------
(* parse_tasks *)

entry == tasks[idx]

\* a best-effort loop: an entry without annotation data is passed over
ParseEntrySkipping ==
    /\ pc = "loop"
    /\ idx <= Len(tasks)
    /\ LET found == "annotations" \in DOMAIN tasks[idx] \/ "completions" \in DOMAIN tasks[idx]
       IN /\ key' = IF "annotations" \in DOMAIN tasks[idx] THEN "annotations"
                    ELSE IF "completions" \in DOMAIN tasks[idx] THEN "completions"
                    ELSE key
          /\ pc' = IF found THEN "task" ELSE "loop"
          /\ idx' = IF found THEN idx ELSE idx + 1
    /\ UNCHANGED <<labels, tasks, frames, to_parse, individuals, keypoints, relations,
                   instances, points, indvQueue, indv_id, relQueue, popped, err>>

\* lines 46-55: the loop head, the choice of the key, the call of the per-task parse
ParseEntry ==
    /\ pc = "loop"
    /\ idx <= Len(tasks)
    /\ LET found == "annotations" \in DOMAIN entry \/ "completions" \in DOMAIN entry
       IN /\ key' = IF "annotations" \in DOMAIN entry THEN "annotations"
                    ELSE IF "completions" \in DOMAIN entry THEN "completions"
                    ELSE key
          /\ pc' = IF found THEN "task" ELSE "failed"
          /\ err' = IF found THEN err ELSE Exception("ValueError")
    /\ UNCHANGED <<labels, tasks, idx, frames, to_parse, individuals, keypoints, relations,
                   instances, points, indvQueue, indv_id, relQueue, popped>>

\* line 57: return Labels(frames)
ParseReturn ==
    /\ pc = "loop"
    /\ idx > Len(tasks)
    /\ pc' = "done"
    /\ UNCHANGED <<labels, tasks, idx, frames, key, to_parse, individuals, keypoints,
                   relations, instances, points, indvQueue, indv_id, relQueue, popped, err>>

----------------------------------------------------------------------------
(* task_to_labeled_frame *)

\* The exception lines 175-184 raise on the value v = task[key], or NoError.
\* len(v) at line 175 stands before the try block: its TypeError is not wrapped.
EnterError(task, v) ==
    IF v.kind # "list" THEN Exception("TypeError")
    ELSE IF Len(v.items) = 0 THEN Wrapped(task, "IndexError")
    ELSE IF "result" \notin DOMAIN v.items[1] THEN Wrapped(task, "KeyError")
    ELSE NoError

\* lines 175-191: the warning, to_parse, the three indexes, the empty instance list
TaskEnter ==
    /\ pc = "task"
    /\ LET v == entry[key]
           e == EnterError(entry, v)
           res == v.items[1].result
       IN IF e # NoError
          THEN /\ pc' = "failed"
               /\ err' = e
               /\ UNCHANGED <<to_parse, individuals, keypoints, relations, instances,
                              indvQueue, indv_id, popped>>
          ELSE /\ to_parse' = res
               /\ individuals' = filter_and_index(res, "rectanglelabels")
               /\ keypoints' = filter_and_index(res, "keypointlabels")
               /\ relations' = build_relation_map(res)
               /\ instances' = <<>>
               /\ indvQueue' = DictKeys(individuals')
               /\ indv_id' = <<>>
               /\ popped' = <<>>
               /\ pc' = IF Len(individuals') > 0 THEN "indv" ELSE "leftover"
               /\ err' = err
    /\ UNCHANGED <<labels, tasks, idx, frames, key, points, relQueue>>

\* lines 193-195: the next individual, points = {}, the lookup relations[indv_id];
\* when the individuals are exhausted control reaches line 212
IndvNext ==
    /\ pc = "indv"
    /\ IF indvQueue = <<>>
       THEN /\ pc' = "leftover"
            /\ UNCHANGED <<indvQueue, indv_id, points, relQueue, err>>
       ELSE LET id == Head(indvQueue)
            IN /\ indvQueue' = Tail(indvQueue)
               /\ indv_id' = <<id>>
               /\ points' = <<>>
               /\ IF HasKey(relations, id)
                  THEN /\ relQueue' = DictGet(relations, id)
                       /\ pc' = "rel"
                       /\ err' = err
                  ELSE /\ relQueue' = relQueue
                       /\ pc' = "failed"
                       /\ err' = Wrapped(entry, "KeyError")
    /\ UNCHANGED <<labels, tasks, idx, frames, key, to_parse, individuals, keypoints,
                   relations, instances, popped>>

HasGeometry(kpt) == "x" \in DOMAIN kpt.value /\ "y" \in DOMAIN kpt.value

x_pos(kpt) == ToPixels(kpt.value.x, kpt.original_width)

y_pos(kpt) == ToPixels(kpt.value.y, kpt.original_height)

\* a test of the x coordinate alone
NotAnnotatedX(kpt) == isnan(x_pos(kpt))

\* line 202: the keypoint is skipped
NotAnnotated(kpt) == isnan(x_pos(kpt)) \/ isnan(y_pos(kpt))

\* lines 196-205: one round of the loop over relations[indv_id]
PopKeypoint ==
    /\ pc = "rel"
    /\ relQueue # <<>>
    /\ LET rel == Head(relQueue)
       IN IF ~HasKey(keypoints, rel)
          THEN /\ pc' = "failed"
               /\ err' = Wrapped(entry, "KeyError")
               /\ UNCHANGED <<keypoints, popped, points, relQueue>>
          ELSE LET kpt == DictGet(keypoints, rel)
               IN /\ keypoints' = DictRemove(keypoints, rel)
                  /\ popped' = Append(popped, <<indv_id[1], rel>>)
                  /\ relQueue' = Tail(relQueue)
                  /\ IF ~HasGeometry(kpt)
                     THEN /\ pc' = "failed"
                          /\ err' = Wrapped(entry, "KeyError")
                          /\ points' = points
                     ELSE /\ pc' = "rel"
                          /\ err' = err
                          /\ points' =
                               IF NotAnnotated(kpt) THEN points
                               ELSE DictSet(points, Node(kpt.value.keypointlabels[1]),
                                            Point(x_pos(kpt), y_pos(kpt), Unset))
    /\ UNCHANGED <<labels, tasks, idx, frames, key, to_parse, individuals, relations,
                   instances, indvQueue, indv_id>>

\* lines 207-208: the related ids are exhausted
IndvEnd ==
    /\ pc = "rel"
    /\ relQueue = <<>>
    /\ instances' = IF Len(points) > 0 THEN Append(instances, Instance(points, skeleton))
                    ELSE instances
    /\ pc' = "indv"
    /\ UNCHANGED <<labels, tasks, idx, frames, key, to_parse, individuals, keypoints,
                   relations, points, indvQueue, indv_id, relQueue, popped, err>>

\* leftover points created like the points of an individual
RECURSIVE LeftoverPointsUnset(_, _)
LeftoverPointsUnset(pool, acc) ==
    IF pool = <<>> THEN acc
    ELSE LET kpt == Head(pool).v
         IN LeftoverPointsUnset(Tail(pool),
                                DictSet(acc, Node(kpt.value.keypointlabels[1]),
                                        Point(x_pos(kpt), y_pos(kpt), Unset)))

\* lines 213-219 over the pool: every keypoint left becomes a visible point
RECURSIVE LeftoverPoints(_, _)
LeftoverPoints(pool, acc) ==
    IF pool = <<>> THEN acc
    ELSE LET kpt == Head(pool).v
         IN LeftoverPoints(Tail(pool),
                           DictSet(acc, Node(kpt.value.keypointlabels[1]),
                                   Point(x_pos(kpt), y_pos(kpt), "True")))

\* lines 212-221
Leftover ==
    /\ pc = "leftover"
    /\ IF \E i \in DOMAIN keypoints : ~HasGeometry(keypoints[i].v)
       THEN /\ pc' = "failed"
            /\ err' = Wrapped(entry, "KeyError")
            /\ UNCHANGED <<points, instances>>
       ELSE /\ points' = LeftoverPoints(keypoints, <<>>)
            /\ instances' = IF Len(points') > 0
                            THEN Append(instances, Instance(points', skeleton))
                            ELSE instances
            /\ pc' = "video"
            /\ err' = err
    /\ UNCHANGED <<labels, tasks, idx, frames, key, to_parse, individuals, keypoints,
                   relations, indvQueue, indv_id, relQueue, popped>>

\* video_from_task, line 281
HasVideo(task) == "meta" \in DOMAIN task /\ "video" \in DOMAIN task.meta

\* lines 223-225 and 282-284, then frames.append of line 55
TaskReturn ==
    /\ pc = "video"
    /\ IF HasVideo(entry)
       THEN LET v == entry.meta.video
            IN /\ frames' = Append(frames, LabeledFrame(Video(v.filename, v.shape),
                                                        v.frame_idx, instances))
               /\ idx' = idx + 1
               /\ pc' = "loop"
               /\ err' = err
       ELSE /\ pc' = "failed"
            /\ err' = Wrapped(entry, "KeyError")
            /\ UNCHANGED <<frames, idx>>
    /\ UNCHANGED <<labels, tasks, key, to_parse, individuals, keypoints, relations,
                   instances, points, indvQueue, indv_id, relQueue, popped>>

----------------------------------------------------------------------------
(* Enumerated inputs of parse_tasks *)

RectIds == {"r1", "r2"}

KpIds == {"k1", "k2"}

NodeNames == {"head", "tail"}

\* percentage coordinates of a keypoint: both set, x not annotated, y not annotated
Coords == { [x |-> <<50>>, y |-> <<50>>], [x |-> NaN, y |-> <<50>>], [x |-> <<25>>, y |-> NaN] }

Absent == [absent |-> TRUE]

\* the keypoint item a result list holds for one id, or none
KpChoices == {Absent} \cup [x : {c.x : c \in Coords}, y : {c.y : c \in Coords}, label : NodeNames]

KpOf(id, c) ==
    IF c = Absent THEN <<>> ELSE <<KeypointItem(id, c.x, c.y, c.label, 200, 100)>>

KpLists == { KpOf("k1", a) \o KpOf("k2", b) : a \in KpChoices, b \in KpChoices }

RectLists == { <<>>, <<RectItem("r1", 200, 100)>>,
               <<RectItem("r1", 200, 100), RectItem("r2", 200, 100)>> }

\* keypoint to individual, individual to keypoint, individual to individual
Edges == (KpIds \X RectIds) \cup {<<"r1", "k1">>, <<"r1", "r2">>}

RelLists ==
    UNION { { [i \in 1..n |-> RelationItem(f[i][1], f[i][2])] : f \in [1..n -> Edges] }
            : n \in 0..MaxRels }

Meta == [video |-> [filename |-> "v.mp4", frame_idx |-> 3, shape |-> <<1, 100, 200, 3>>]]

AnnotationSet(result) == [result |-> result]

PyList(items) == [kind |-> "list", items |-> items]

\* a well-formed task around a result list
TaskOf(result) ==
    [id |-> "7", annotations |-> PyList(<<AnnotationSet(result)>>), meta |-> Meta]

RichTasks == { TaskOf(r \o k \o l) : r \in RectLists, k \in KpLists, l \in RelLists }

Head1 == KeypointItem("k1", <<50>>, <<50>>, "head", 200, 100)

Tail2 == KeypointItem("k2", <<25>>, <<25>>, "tail", 200, 100)

\* the task of the documented example: one individual, two related keypoints
ExampleResult ==
    << RectItem("r1", 200, 100), Head1, RelationItem("k1", "r1"),
       Tail2, RelationItem("k2", "r1") >>

\* result lists the product above leaves out: an unread item type, a repeated
\* keypoint id, keypoints without geometry
OddResults ==
    { <<ChoiceItem("c1"), Head1, ChoiceItem("c2")>>,
      <<Head1, KeypointItem("k1", NaN, <<50>>, "tail", 200, 100)>>,
      <<KeypointNoGeometry("k1", "head", 200, 100)>>,
      <<RectItem("r1", 200, 100), KeypointNoGeometry("k1", "head", 200, 100),
        RelationItem("k1", "r1")>>,
      ExampleResult }

\* values under the annotation key that are no list of annotation sets with a result
BadValues ==
    { [kind |-> "None"], [kind |-> "int"], PyList(<<>>), PyList(<<[was_cancelled |-> FALSE]>>) }

OddTasks ==
    { TaskOf(r) : r \in OddResults }
    \cup { [annotations |-> PyList(<<AnnotationSet(r)>>), meta |-> Meta] : r \in OddResults }
    \cup { [id |-> "7", annotations |-> v, meta |-> Meta] : v \in BadValues }
    \cup { [annotations |-> v, meta |-> Meta] : v \in BadValues }
    \cup { [id |-> "7", completions |-> v, meta |-> Meta] : v \in BadValues }
    \cup { [id |-> "7", annotations |-> PyList(<<AnnotationSet(<<Head1>>)>>)],
           [annotations |-> PyList(<<AnnotationSet(<<Head1>>)>>)],
           [id |-> "7", annotations |-> PyList(<<AnnotationSet(<<Head1>>)>>),
            meta |-> [note |-> "no video"]],
           [id |-> "7", meta |-> Meta,
            annotations |-> PyList(<<AnnotationSet(<<Head1>>), AnnotationSet(<<Tail2>>)>>)] }

\* tasks of the task lists: parsed from annotations, from completions, from
\* annotations with completions present, without either key, failing in the parse
GoodA == TaskOf(ExampleResult)

GoodC == [id |-> "8", completions |-> PyList(<<AnnotationSet(<<Tail2>>)>>), meta |-> Meta]

GoodBoth ==
    [id |-> "9", annotations |-> PyList(<<AnnotationSet(<<Head1>>)>>),
     completions |-> PyList(<<AnnotationSet(<<Tail2>>)>>), meta |-> Meta]

NoKey == [id |-> "10", meta |-> Meta]

NoVideo == [id |-> "11", annotations |-> PyList(<<AnnotationSet(<<Head1>>)>>)]

ListTasks == {GoodA, GoodC, GoodBoth, NoKey, NoVideo}

TaskLists == UNION { [1..n -> ListTasks] : n \in 0..MaxTasks }

Inputs == { <<t>> : t \in RichTasks \cup OddTasks } \cup TaskLists

----------------------------------------------------------------------------
(* parse_tasks(tasks, skeleton) on every enumerated input *)

\* the state at the call: the locals are not bound yet
Locals ==
    /\ idx = 1
    /\ frames = <<>>
    /\ key = ""
    /\ to_parse = <<>>
    /\ individuals = <<>>
    /\ keypoints = <<>>
    /\ relations = <<>>
    /\ instances = <<>>
    /\ points = <<>>
    /\ indvQueue = <<>>
    /\ indv_id = <<>>
    /\ relQueue = <<>>
    /\ popped = <<>>
    /\ err = NoError

Init ==
    /\ pc = "loop"
    /\ labels = <<>>
    /\ tasks \in Inputs
    /\ Locals

Next ==
    \/ ParseEntry
    \/ ParseReturn
    \/ TaskEnter
    \/ IndvNext
    \/ PopKeypoint
    \/ IndvEnd
    \/ Leftover
    \/ TaskReturn

Spec == Init /\ [][Next]_vars

----------------------------------------------------------------------------
(* write_labels *)

\* uuid.uuid4(): the n-th id drawn by the call; no two draws give one id
uuid4(n) == <<"uuid", n>>

\* relations written from the individual to the keypoint
RECURSIVE WritePointsReversed(_, _, _, _, _)
WritePointsReversed(pts, inst_id, width, height, n) ==
    IF pts = <<>> THEN <<>>
    ELSE LET node == Head(pts).k
             point == Head(pts).v
             point_id == uuid4(n)
         IN << KeypointItem(point_id, ToPercent(point.x, width), ToPercent(point.y, height),
                            node, width, height),
               RelationItem(inst_id, point_id) >>
            \o WritePointsReversed(Tail(pts), inst_id, width, height, n + 1)

\* lines 105-134: the keypoint and the relation of every point of one instance,
\* the first point taking the n-th id
RECURSIVE WritePoints(_, _, _, _, _)
WritePoints(pts, inst_id, width, height, n) ==
    IF pts = <<>> THEN <<>>
    ELSE LET node == Head(pts).k
             point == Head(pts).v
             point_id == uuid4(n)
         IN << KeypointItem(point_id, ToPercent(point.x, width), ToPercent(point.y, height),
                            node, width, height),
               RelationItem(point_id, inst_id) >>
            \o WritePoints(Tail(pts), inst_id, width, height, n + 1)

\* lines 81-134: the items of the instances of one frame, the first drawing the n-th id
RECURSIVE WriteInstances(_, _, _, _)
WriteInstances(insts, width, height, n) ==
    IF insts = <<>> THEN <<>>
    ELSE LET instance == Head(insts)
             inst_id == uuid4(n)
         IN <<RectItem(inst_id, width, height)>>
            \o WritePoints(instance.points, inst_id, width, height, n + 1)
            \o WriteInstances(Tail(insts), width, height, n + 1 + Len(instance.points))

RECURSIVE IdsDrawn(_)
IdsDrawn(insts) ==
    IF insts = <<>> THEN 0 ELSE 1 + Len(Head(insts).points) + IdsDrawn(Tail(insts))

\* lines 72-77
FrameHeight(frame) == IF frame.video.shape # NoShape THEN frame.video.shape[2] ELSE 100

FrameWidth(frame) == IF frame.video.shape # NoShape THEN frame.video.shape[3] ELSE 100

\* lines 136-165: the task record of one frame (the two timestamps are left out)
WriteFrame(frame, n) ==
    [data |-> <<>>,
     meta |-> [video |-> [filename |-> frame.video.filename, frame_idx |-> frame.frame_idx,
                          shape |-> frame.video.shape]],
     annotations |-> PyList(<<
        [result |-> WriteInstances(frame.instances, FrameWidth(frame), FrameHeight(frame), n),
         was_cancelled |-> FALSE, ground_truth |-> FALSE, lead_time |-> 0,
         result_count |-> 1] >>)]

RECURSIVE WriteFrames(_, _)
WriteFrames(fs, n) ==
    IF fs = <<>> THEN <<>>
    ELSE <<WriteFrame(Head(fs), n)>> \o WriteFrames(Tail(fs), n + IdsDrawn(Head(fs).instances))

write_labels(lbls) == WriteFrames(lbls, 1)

\* the call write_labels(labels); its value is then handed to parse_tasks
WriteLabels ==
    /\ pc = "write"
    /\ tasks' = write_labels(labels)
    /\ pc' = "loop"
    /\ UNCHANGED <<labels, idx, frames, key, to_parse, individuals, keypoints, relations,
                   instances, points, indvQueue, indv_id, relQueue, popped, err>>

----------------------------------------------------------------------------
(* Enumerated label collections *)

P(x, y) == Point(<<x>>, <<y>>, "True")

NaNPoint == Point(NaN, NaN, "True")

\* Instance.points: no point, two points, a NaN point and a point, a NaN point only
PointDicts ==
    { <<>>,
      << [k |-> "head", v |-> P(100, 50)], [k |-> "tail", v |-> P(50, 25)] >>,
      << [k |-> "head", v |-> NaNPoint], [k |-> "tail", v |-> P(50, 25)] >>,
      << [k |-> "head", v |-> NaNPoint] >> }

InstSlots == {1, 2}

InstanceLists ==
    UNION { { [i \in 1..n |-> Instance(f[i], skeleton)] : f \in [1..n -> PointDicts] }
            : n \in {0} \cup InstSlots }

\* a video of unknown shape, a video of 100 rows and 200 columns
FrameHeads ==
    { [video |-> Video("a.mp4", NoShape), frame_idx |-> 0],
      [video |-> Video("b.mp4", <<1, 100, 200, 3>>), frame_idx |-> 3] }

FrameSet == { LabeledFrame(h.video, h.frame_idx, il) : h \in FrameHeads, il \in InstanceLists }

LabelInputs == UNION { [1..n -> FrameSet] : n \in 0..MaxFrames }

InitLabels ==
    /\ pc = "write"
    /\ labels \in LabelInputs
    /\ tasks = <<>>
    /\ Locals

\* write_labels alone
SpecWrite == InitLabels /\ [][WriteLabels]_vars

NextRound == WriteLabels \/ Next

\* parse_tasks(write_labels(labels), skeleton)
SpecRound == InitLabels /\ [][NextRound]_vars

----------------------------------------------------------------------------
(* build_relation_map on every enumerated list of result items *)

RelIds == {"a", "b", "c"}

RelItems ==
    { RelationItem(f, t) : f \in RelIds, t \in RelIds }
    \cup { RectItem("a", 200, 100), RectItem("d", 200, 100), ChoiceItem("b"),
           KeypointItem("c", <<50>>, <<50>>, "head", 200, 100) }

ItemLists == UNION { [1..n -> RelItems] : n \in 0..MaxItems }

InitRel ==
    /\ pc = "build"
    /\ labels = <<>>
    /\ tasks = <<>>
    /\ to_parse \in ItemLists
    /\ idx = 1
    /\ frames = <<>>
    /\ key = ""
    /\ individuals = <<>>
    /\ keypoints = <<>>
    /\ relations = <<>>
    /\ instances = <<>>
    /\ points = <<>>
    /\ indvQueue = <<>>
    /\ indv_id = <<>>
    /\ relQueue = <<>>
    /\ popped = <<>>
    /\ err = NoError

\* relations = build_relation_map(to_parse), line 188
BuildRelations ==
    /\ pc = "build"
    /\ relations' = build_relation_map(to_parse)
    /\ pc' = "built"
    /\ UNCHANGED <<labels, tasks, idx, frames, key, to_parse, individuals, keypoints,
                   instances, points, indvQueue, indv_id, relQueue, popped, err>>

SpecRel == InitRel /\ [][BuildRelations]_vars

----------------------------------------------------------------------------
(* Vocabulary of the properties *)

\* occurrences of x in the sequence s
Count(s, x) == Cardinality({i \in DOMAIN s : s[i] = x})

\* the neighbour list of an id; a missing key reads as the empty list
Nbrs(relmap, a) == IF HasKey(relmap, a) THEN DictGet(relmap, a) ELSE <<>>

RelationItemsOf(items) == {i \in DOMAIN items : items[i].type = "relation"}

EndpointsOf(items) ==
    {items[i].from_id : i \in RelationItemsOf(items)}
    \cup {items[i].to_id : i \in RelationItemsOf(items)}

DistinctKeys(d) == \A i, j \in DOMAIN d : d[i].k = d[j].k => i = j

----------------------------------------------------------------------------
\* C9: the map build_relation_map returns is symmetric: b stands in a's list as
\* often as a stands in b's list, every relation item (from, to) puts to in
\* from's list and from in to's list, and the keys of the map are exactly the
\* from_id and to_id of the relation items; items of other types add nothing.
C9_RelationMapSymmetric ==
    pc = "built" =>
        /\ DistinctKeys(relations)
        /\ KeySet(relations) = EndpointsOf(to_parse)
        /\ \A a, b \in RelIds \cup {"d"} :
              /\ Count(Nbrs(relations, a), b) = Count(Nbrs(relations, b), a)
              /\ a # b =>
                   Count(Nbrs(relations, a), b) =
                      Cardinality({i \in RelationItemsOf(to_parse) :
                                     \/ to_parse[i].from_id = a /\ to_parse[i].to_id = b
                                     \/ to_parse[i].from_id = b /\ to_parse[i].to_id = a})
        /\ \A i \in RelationItemsOf(to_parse) :
              /\ Count(Nbrs(relations, to_parse[i].from_id), to_parse[i].to_id) > 0
              /\ Count(Nbrs(relations, to_parse[i].to_id), to_parse[i].from_id) > 0

\* a map built from two edges that share an endpoint, next to an item of another type
C9_Witness ==
    /\ pc = "built"
    /\ \E a \in KeySet(relations) :
          LET l == DictGet(relations, a)
          IN Len(l) = 2 /\ l[1] # l[2] /\ l[1] # a /\ l[2] # a
    /\ Cardinality(KeySet(relations)) = 3
    /\ \E i \in DOMAIN to_parse : to_parse[i].type # "relation"

----------------------------------------------------------------------------
(* Vocabulary of the properties of the parse *)

\* the locals of task_to_labeled_frame are bound for the task `entry`
InTask == pc \in {"indv", "rel", "leftover", "video"}

Ended == pc \in {"done", "failed"}

HasAnnotationKey(task) == "annotations" \in DOMAIN task \/ "completions" \in DOMAIN task

Keyless == {i \in DOMAIN tasks : ~HasAnnotationKey(tasks[i])}

\* the keypoint index as line 187 built it, before any pop
KpIndex == filter_and_index(to_parse, "keypointlabels")

PointsOf(inst) == {inst.points[i].v : i \in DOMAIN inst.points}

----------------------------------------------------------------------------
\* C1: a lookup miss in the relation map is "no edges", not an error: the parse
\* of a task that has meta.video never fails at an individual whose id is in no
\* relation entry.
C1_LookupMissIsNoEdges ==
    ~ ( /\ pc = "failed"
        /\ HasAnnotationKey(entry)
        /\ HasVideo(entry)
        /\ indv_id # <<>>
        /\ ~HasKey(relations, indv_id[1]) )

----------------------------------------------------------------------------
\* C2: no point of any instance of a returned frame has a NaN x or y, whether
\* the instance was built for an individual or from the leftover keypoints.
C2_NoNaNPoint ==
    \A i \in DOMAIN frames : \A j \in DOMAIN frames[i].instances :
        \A pt \in PointsOf(frames[i].instances[j]) : ~isnan(pt.x) /\ ~isnan(pt.y)

----------------------------------------------------------------------------
\* C4: every failure raised while task_to_labeled_frame processes a task is the
\* wrapped RuntimeError that names the task's id ("??" without an id) and chains
\* the cause; no other exception type escapes the per-task parse.
C4_EveryFailureWrapped ==
    (pc = "failed" /\ HasAnnotationKey(entry)) =>
        /\ err.type = "RuntimeError"
        /\ err.task = TaskName(entry)
        /\ err.cause \in {"KeyError", "IndexError", "TypeError"}

----------------------------------------------------------------------------
\* both keys present: annotations is the one used
AnnotationsPreferred ==
    (InTask /\ "annotations" \in DOMAIN entry) =>
        /\ key = "annotations"
        /\ to_parse = entry.annotations.items[1].result

\* C5 as stated: a task with neither key, at any position, makes the whole call
\* fail with ValueError; with both keys annotations is used.
C5_KeylessTaskIsValueError ==
    /\ (Ended /\ Keyless # {}) => (pc = "failed" /\ err.type = "ValueError")
    /\ AnnotationsPreferred

\* C5 amended: with a task that has neither key the call returns no collection;
\* it fails at the first task in input order that fails, every task before it
\* having been parsed into a frame, and the error is ValueError exactly when
\* that task is one with neither key; with both keys annotations is used.
C5_FirstFailureDecides ==
    /\ (Keyless # {}) => pc # "done"
    /\ pc = "failed" =>
          /\ Len(frames) = idx - 1
          /\ \A i \in Keyless : idx <= i
          /\ (err.type = "ValueError") <=> (idx \in Keyless)
    /\ AnnotationsPreferred

\* the second task has neither key and the first was parsed into a frame
C5_Witness ==
    /\ pc = "failed"
    /\ err.type = "ValueError"
    /\ idx = 2
    /\ Len(frames) = 1
    /\ "completions" \in DOMAIN tasks[1]

----------------------------------------------------------------------------
(* Vocabulary of the properties of one task *)

\* the individuals the loop of line 193 has finished with
Finished ==
    {id \in KeySet(individuals) :
        /\ \A i \in DOMAIN indvQueue : indvQueue[i] # id
        /\ pc = "rel" => indv_id # <<id>>}

\* the keypoint item has a NaN coordinate
HasNaN(kpt) == isnan(kpt.value.x) \/ isnan(kpt.value.y)

\* positions in the neighbour list of an individual whose keypoint has no NaN
Annotated(id) ==
    LET conn == Nbrs(relations, id)
    IN {i \in DOMAIN conn : ~HasNaN(DictGet(KpIndex, conn[i]))}

\* N - M of an individual
NMinusM(id) == Cardinality(Annotated(id))

\* the labels of the connected keypoints without NaN
AnnotatedLabels(id) ==
    LET conn == Nbrs(relations, id)
    IN {DictGet(KpIndex, conn[i]).value.keypointlabels[1] : i \in Annotated(id)}

LastOf(s) == s[Len(s)]

----------------------------------------------------------------------------
\* C6 as stated: the instance built for an individual with N connected
\* keypoints, M of them NaN, has exactly N - M points whatever the labels are,
\* and no instance is created when N - M = 0.
C6_ExactlyNMinusM ==
    (pc = "indv" /\ indv_id # <<>>) =>
        /\ Len(points) = NMinusM(indv_id[1])
        /\ Len(instances) = Cardinality({id \in Finished : NMinusM(id) > 0})
        /\ NMinusM(indv_id[1]) > 0 => LastOf(instances).points = points

\* C6 amended: the instance has one point per distinct label among the N - M
\* connected keypoints without NaN (so N - M points when their labels differ
\* pairwise, fewer when two share a label), and no instance is created when
\* N - M = 0.
C6_OnePointPerLabel ==
    (pc = "indv" /\ indv_id # <<>>) =>
        /\ KeySet(points) = AnnotatedLabels(indv_id[1])
        /\ DistinctKeys(points)
        /\ Len(points) <= NMinusM(indv_id[1])
        /\ Cardinality(AnnotatedLabels(indv_id[1])) = NMinusM(indv_id[1])
              => Len(points) = NMinusM(indv_id[1])
        /\ Len(instances) = Cardinality({id \in Finished : NMinusM(id) > 0})
        /\ NMinusM(indv_id[1]) > 0 => LastOf(instances).points = points

\* an individual with two connected keypoints, one of them NaN, got one point
C6_Witness ==
    /\ pc = "indv"
    /\ indv_id # <<>>
    /\ Len(Nbrs(relations, indv_id[1])) = 2
    /\ NMinusM(indv_id[1]) = 1
    /\ Len(points) = 1
    /\ Len(instances) = 1

----------------------------------------------------------------------------
\* C7: after the individuals, the keypoints left in the pool form exactly one
\* more instance when there are any and none otherwise; it is the last
\* instance, all its points have visible = True, the points of the instances
\* of individuals have the default visibility, and without individuals all
\* keypoints form this one instance.
C7_LeftoverInstance ==
    pc = "video" =>
        LET k == Cardinality({id \in KeySet(individuals) : NMinusM(id) > 0})
        IN /\ Len(instances) = k + (IF keypoints # <<>> THEN 1 ELSE 0)
           /\ \A j \in 1..k : \A pt \in PointsOf(instances[j]) : pt.visible = Unset
           /\ keypoints # <<>> =>
                 /\ PointsOf(instances[k + 1]) # {}
                 /\ \A pt \in PointsOf(instances[k + 1]) : pt.visible = "True"
                 /\ KeySet(instances[k + 1].points) =
                       {keypoints[i].v.value.keypointlabels[1] : i \in DOMAIN keypoints}
           /\ individuals = <<>> => (k = 0 /\ keypoints = KpIndex)

\* one instance of an individual, then the instance of the leftover keypoints
C7_Witness ==
    /\ pc = "video"
    /\ Len(individuals) = 1
    /\ Len(keypoints) = 1
    /\ Len(instances) = 2
    /\ \A pt \in PointsOf(instances[1]) : pt.visible = Unset

----------------------------------------------------------------------------
\* the ids keypoints.pop gave to an individual, in the order of the pops
RECURSIVE PoppedBy(_, _)
PoppedBy(hist, id) ==
    IF hist = <<>> THEN <<>>
    ELSE (IF Head(hist)[1] = id THEN <<Head(hist)[2]>> ELSE <<>>) \o PoppedBy(Tail(hist), id)

PopCount(k) == Cardinality({i \in DOMAIN popped : popped[i][2] = k})

RECURSIVE PointTotal(_)
PointTotal(insts) == IF insts = <<>> THEN 0 ELSE Len(Head(insts).points) + PointTotal(Tail(insts))

\* C10: at every step of the parse of a task each indexed keypoint id is either
\* in the pool or was consumed by exactly one individual, never both; every id
\* an individual's neighbour list named was consumed, none skipped or reused;
\* the instances hold no more points than there are indexed keypoints; and a
\* claim of an id that is not in the pool ends the task with the wrapped error.
C10_KeypointExclusive ==
    /\ InTask =>
          /\ KeySet(keypoints) \subseteq KeySet(KpIndex)
          /\ \A i \in DOMAIN popped : popped[i][2] \in KeySet(KpIndex)
          /\ \A k \in KeySet(KpIndex) :
                PopCount(k) + (IF HasKey(keypoints, k) THEN 1 ELSE 0) = 1
          /\ \A id \in Finished : PoppedBy(popped, id) = Nbrs(relations, id)
          /\ pc = "rel" =>
                PoppedBy(popped, indv_id[1]) \o relQueue = Nbrs(relations, indv_id[1])
          /\ PointTotal(instances) <= Len(KpIndex)
    /\ (pc = "failed" /\ relQueue # <<>> /\ ~HasKey(keypoints, Head(relQueue))) =>
          /\ err = Wrapped(entry, "KeyError")
          /\ \A id \in KeySet(individuals) :
                Len(PoppedBy(popped, id)) <= Len(Nbrs(relations, id))

\* the second individual claimed a keypoint the first had consumed
C10_Witness ==
    /\ pc = "failed"
    /\ relQueue # <<>>
    /\ indv_id = <<"r2">>
    /\ \E i \in DOMAIN popped : popped[i] = <<"r1", Head(relQueue)>>
    /\ err.type = "RuntimeError"

----------------------------------------------------------------------------
(* Vocabulary of the properties of write_labels *)

ResultOf(task) == task.annotations.items[1].result

\* where the rectangle of the j-th instance stands in the result list of its frame
RECURSIVE RectAt(_, _)
RectAt(insts, j) ==
    IF j = 1 THEN 1 ELSE RectAt(insts, j - 1) + 1 + 2 * Len(insts[j - 1].points)

\* the rectangles and keypoints written, as <<task, position>>
IdCarriers ==
    {tp \in UNION {{<<i, a>> : a \in DOMAIN ResultOf(tasks[i])} : i \in DOMAIN tasks} :
        ResultOf(tasks[tp[1]])[tp[2]].type \in {"rectanglelabels", "keypointlabels"}}

----------------------------------------------------------------------------
\* C8: write_labels returns one task per frame in frame order, the i-th with
\* the i-th frame's filename, frame index and shape and exactly one annotation
\* set; each instance with P points contributes, in instance order, a rectangle
\* followed by P pairs (keypoint, relation), every relation going from the
\* keypoint just before it to the rectangle of its instance; all rectangle and
\* keypoint ids are pairwise distinct; a frame with I instances and P points
\* yields I + 2P results.
C8_WrittenTasks ==
    pc # "write" =>
        /\ Len(tasks) = Len(labels)
        /\ \A i \in DOMAIN labels :
              LET frame == labels[i]
                  insts == frame.instances
                  res == ResultOf(tasks[i])
              IN /\ tasks[i].meta.video =
                       [filename |-> frame.video.filename, frame_idx |-> frame.frame_idx,
                        shape |-> frame.video.shape]
                 /\ tasks[i].annotations.kind = "list"
                 /\ Len(tasks[i].annotations.items) = 1
                 /\ Len(res) = Len(insts) + 2 * PointTotal(insts)
                 /\ \A j \in DOMAIN insts :
                       LET o == RectAt(insts, j)
                       IN /\ res[o].type = "rectanglelabels"
                          /\ \A p \in DOMAIN insts[j].points :
                                /\ res[o + 2 * p - 1].type = "keypointlabels"
                                /\ res[o + 2 * p - 1].value.keypointlabels =
                                      <<insts[j].points[p].k>>
                                /\ res[o + 2 * p].type = "relation"
                                /\ res[o + 2 * p].from_id = res[o + 2 * p - 1].id
                                /\ res[o + 2 * p].to_id = res[o].id
        /\ \A s, t \in IdCarriers :
              ResultOf(tasks[s[1]])[s[2]].id = ResultOf(tasks[t[1]])[t[2]].id => s = t

\* two frames written, the second with two instances and three points
C8_Witness ==
    /\ pc = "loop"
    /\ Len(tasks) = 2
    /\ Len(labels[2].instances) = 2
    /\ PointTotal(labels[2].instances) = 3
    /\ Len(ResultOf(tasks[2])) = 8

----------------------------------------------------------------------------
\* the node names and coordinates of the points of an instance that are not NaN
Coordinates(inst) ==
    {<<inst.points[p].k, inst.points[p].v.x, inst.points[p].v.y>> : p \in
        {q \in DOMAIN inst.points : ~isnan(inst.points[q].v.x) /\ ~isnan(inst.points[q].v.y)}}

\* C3: parse_tasks(write_labels(L), skeleton) succeeds for every collection L
\* and returns as many frames as L has, the i-th with the frame index and the
\* number of instances of the i-th frame of L, its instances carrying the node
\* names and coordinates of the points of L that are not NaN.
C3_RoundTrip ==
    Ended =>
        /\ pc = "done"
        /\ Len(frames) = Len(labels)
        /\ \A i \in DOMAIN labels :
              /\ frames[i].frame_idx = labels[i].frame_idx
              /\ Len(frames[i].instances) = Len(labels[i].instances)
              /\ \A j \in DOMAIN labels[i].instances :
                    Coordinates(frames[i].instances[j]) = Coordinates(labels[i].instances[j])

====
